---------------------------- MODULE Spec2Model ----------------------------
(***************************************************************************)
(* A model of the HomeBrew diagnostic scripts:                             *)
(*   python_scripts/wifi_bt_gps_test.py  (WiFiBTGPSTester, main)           *)
(*   python_scripts/telescope_comm.py    (CelestronMount, main)            *)
(*   diagnose_homebrew.py                (port enumeration, baud probe)    *)
(*   scan_celestron.py                   (subnet sweep)                    *)
(*                                                                         *)
(* Text is modelled at the byte level: a Python str or bytes value is a    *)
(* sequence of character codes, so that strip(), lower(), the substring    *)
(* test and decode() are computed and not assumed.  Library calls          *)
(* (socket, telnetlib, pyserial) are the environment: each call's outcome  *)
(* is drawn with \E from the outcomes the library can produce.             *)
(***************************************************************************)
EXTENDS Integers, Sequences, FiniteSets, TLC

VARIABLES
    entry,        \* which script (or which direct call) this run is
    pc,           \* position of the running script
    exitStatus,   \* "running", or the process exit status once exited
    stdout,       \* the kinds of message printed so far
    openHandles,  \* OS-level transport handles (sockets, serial ports) open now
    intr,         \* "no", or where the script was when the interrupt signal
                  \* (KeyboardInterrupt) was delivered
    faults,       \* number of environment faults injected so far
    tester,       \* the WiFiBTGPSTester object and its transport
    mount,        \* the CelestronMount object and main's locals
    diag,         \* diagnose_homebrew's locals
    scan          \* scan_celestron's module-level state

vars == <<entry, pc, exitStatus, stdout, openHandles, intr, faults,
          tester, mount, diag, scan>>

----------------------------------------------------------------------------
(* Bounds of the model. *)

\* Environment faults (write failures, late or lost replies, peer closes)
\* injected in one run.
MaxFaults == 2

\* Method calls made on one CelestronMount object when it is driven directly.
MaxCalls == 4

\* Serial ports the operating system enumerates.
MaxPorts == 2

\* Hosts of the swept subnet that may accept a connection on port 2000: the
\* first MaxLive suffixes of LiveOrder.
MaxLive == 3
LiveOrder == <<5, 1, 254, 6, 77, 200, 253, 20>>

----------------------------------------------------------------------------
(* Python values. *)

PyNone == [t |-> "None", v |-> <<>>]
PyStr(s) == [t |-> "str", v |-> s]
PyBool(b) == [t |-> "bool", v |-> <<b>>]

\* A handle-valued attribute that holds None.
NoHandle == <<"None", 0>>

\* bool(x) of a str-or-None value: None and "" are falsy.
Truthy(x) == x.t = "str" /\ x.v # <<>>

----------------------------------------------------------------------------
(* Text helpers: Python's str methods on sequences of character codes. *)

\* The characters str.strip() removes: \t \n \v \f \r, 0x1c..0x1f and space.
Whitespace == {9, 10, 11, 12, 13, 28, 29, 30, 31, 32}

SetMin(S) == CHOOSE x \in S : \A y \in S : x <= y
SetMax(S) == CHOOSE x \in S : \A y \in S : x >= y

\* str.strip(): drop leading and trailing whitespace, keep the inside.
strip(s) ==
    LET keep == {i \in 1..Len(s) : s[i] \notin Whitespace}
    IN  IF keep = {} THEN <<>> ELSE SubSeq(s, SetMin(keep), SetMax(keep))

\* bytes.decode(): succeeds on 7-bit text.  The byte alphabet of the model is
\* ASCII plus the bytes 0xFE/0xFF, which no UTF-8 or ASCII text contains.
Decodable(bytes) == \A i \in 1..Len(bytes) : bytes[i] < 128

RECURSIVE Concat(_)
Concat(chunks) ==
    IF chunks = <<>> THEN <<>> ELSE Head(chunks) \o Concat(Tail(chunks))

\* "Error: " / "timed out" / "Broken pipe" / "invalid start byte"
ErrorPrefix == <<69, 114, 114, 111, 114, 58, 32>>
MsgTimedOut == <<116, 105, 109, 101, 100, 32, 111, 117, 116>>
MsgBrokenPipe == <<66, 114, 111, 107, 101, 110, 32, 112, 105, 112, 101>>
MsgBadByte == <<105, 110, 118, 97, 108, 105, 100, 32, 115, 116, 97, 114, 116,
                32, 98, 121, 116, 101>>

\* str.startswith
StartsWith(s, p) == Len(s) >= Len(p) /\ SubSeq(s, 1, Len(p)) = p

----------------------------------------------------------------------------
(* wifi_bt_gps_test.py: the command tables. *)

test_wifi_module ==
    << [name |-> "wifi_status",   cmd |-> "WIFISTATUS"],
       [name |-> "wifi_scan",     cmd |-> "WIFISCAN"],
       [name |-> "wifi_connect",  cmd |-> "WIFICONNECT"],
       [name |-> "internet_ping", cmd |-> "PING 8.8.8.8"],
       [name |-> "local_ping",    cmd |-> "PING 192.168.1.1"] >>

test_bluetooth_module ==
    << [name |-> "bt_status", cmd |-> "BTSTATUS"],
       [name |-> "bt_scan",   cmd |-> "BTSCAN"],
       [name |-> "bt_pair",   cmd |-> "BTPAIR"] >>

test_gps_module ==
    << [name |-> "gps_status",      cmd |-> "GPSSTATUS"],
       [name |-> "gps_coordinates", cmd |-> "GPSCOORDS"],
       [name |-> "gps_satellites",  cmd |-> "GPSSAT"],
       [name |-> "gps_time",        cmd |-> "GPSTIME"] >>

test_usb_relay ==
    << [name |-> "usb_status",    cmd |-> "USBSTATUS"],
       [name |-> "usb_relay_on",  cmd |-> "USBRELAY ON"],
       [name |-> "usb_relay_off", cmd |-> "USBRELAY OFF"] >>

test_device_info ==
    << [name |-> "device_version",     cmd |-> "VERSION"],
       [name |-> "device_uptime",      cmd |-> "UPTIME"],
       [name |-> "device_temperature", cmd |-> "TEMPERATURE"],
       [name |-> "memory_status",      cmd |-> "MEMORY"] >>

\* run_all_tests with the GPS suite called before the Bluetooth suite.
run_all_tests_suites_reordered ==
    << [key |-> "wifi_tests",      suite |-> test_wifi_module],
       [key |-> "gps_tests",       suite |-> test_gps_module],
       [key |-> "bluetooth_tests", suite |-> test_bluetooth_module],
       [key |-> "usb_tests",       suite |-> test_usb_relay],
       [key |-> "device_tests",    suite |-> test_device_info] >>

\* run_all_tests: the suites in call order, each with its key in test_results.
run_all_tests_suites ==
    << [key |-> "wifi_tests",      suite |-> test_wifi_module],
       [key |-> "bluetooth_tests", suite |-> test_bluetooth_module],
       [key |-> "gps_tests",       suite |-> test_gps_module],
       [key |-> "usb_tests",       suite |-> test_usb_relay],
       [key |-> "device_tests",    suite |-> test_device_info] >>

\* Every send_command call of run_all_tests in program order: the suite's key,
\* the name the response is stored under, the command text, and whether the
\* call is the last of its suite (the suite then returns its dict).
RECURSIVE BatteryFrom(_)
BatteryFrom(k) ==
    IF k > Len(run_all_tests_suites) THEN <<>>
    ELSE LET s == run_all_tests_suites[k]
         IN  [j \in 1..Len(s.suite) |->
                 [key  |-> s.key,
                  name |-> s.suite[j].name,
                  cmd  |-> s.suite[j].cmd,
                  last |-> j = Len(s.suite)]]
             \o BatteryFrom(k + 1)

Battery == BatteryFrom(1)


----------------------------------------------------------------------------
(* The device behind the tester's socket.  A profile fixes the bytes the   *)
(* device answers to each command; an empty answer means it sends nothing. *)

TxtVersion == <<118, 49, 46, 50, 46, 51>>                 \* "v1.2.3"
TxtVersionCrLf == <<32, 118, 49, 46, 50, 46, 51, 13, 10>> \* " v1.2.3\r\n"
TxtOkCrLf == <<79, 75, 13, 10>>                           \* "OK\r\n"
TxtBlankCrLf == <<32, 13, 10>>                            \* " \r\n"
TxtReadyCrLf == <<114, 101, 97, 100, 121, 13, 10>>        \* "ready\r\n"
BytesBinary == <<255, 254>>                               \* not text

Profiles == {"terse", "padded", "binary"}

Reply(profile, cmd) ==
    CASE profile = "terse" ->
            IF cmd = "VERSION" THEN TxtVersion ELSE <<>>
      [] profile = "padded" ->
            IF cmd = "VERSION" THEN TxtVersionCrLf
            ELSE IF cmd = "TEMPERATURE" THEN TxtBlankCrLf
            ELSE IF cmd = "MEMORY" THEN <<>>
            ELSE TxtOkCrLf
      [] OTHER ->
            IF cmd = "VERSION" THEN BytesBinary ELSE TxtReadyCrLf

\* What the device puts on the wire for a command: nothing for an empty answer.
DeviceAnswer(profile, cmd) ==
    IF Reply(profile, cmd) = <<>> THEN <<>> ELSE <<Reply(profile, cmd)>>

----------------------------------------------------------------------------
(* WiFiBTGPSTester *)

TesterSocket == <<"socket", 0>>

\* __init__: no socket yet, empty result set.  kind/profile describe what is
\* behind self.tn: a real socket to a device, or a test double whose recv
\* returns the canned reply to the last command sent.  last is the log of the
\* latest exchange: the command, the write's outcome, the bytes recv returned
\* and the value send_command returned.
Tester_init(kind, profile) ==
    [ tn           |-> NoHandle,
      test_results |-> <<>>,
      tests        |-> <<>>,
      idx          |-> 0,
      sent         |-> <<>>,
      inflight     |-> <<>>,
      rxbuf        |-> <<>>,
      peerClosed   |-> FALSE,
      last         |-> [cmd |-> "", write |-> "none", got |-> <<>>, ret |-> PyNone],
      kind         |-> kind,
      profile      |-> profile ]

\* What can happen during one send/sleep/recv exchange on the socket:
\*   write  : tn.send succeeds or raises OSError
\*   arrive : how many of the reply chunks still in flight (the reply to this
\*            command last) reach the socket before recv returns
\*   close  : the peer closes the connection before recv returns
\* An exchange in which everything in flight arrives and the peer stays up is
\* the normal case; anything else is an injected fault.
TesterPending(command) ==
    tester.inflight \o
      (IF tester.peerClosed THEN <<>> ELSE DeviceAnswer(tester.profile, command))

TesterEventCost(command, ev) ==
    IF \/ ev.write = "fail"
       \/ ev.arrive < Len(TesterPending(command))
       \/ ev.close /\ ~tester.peerClosed
    THEN 1 ELSE 0

TesterEvents(command) ==
    IF tester.kind = "mock"
    THEN {[write |-> "ok", arrive |-> 0, close |-> FALSE]}
    ELSE {ev \in [write : {"ok", "fail"},
                  arrive : 0..Len(TesterPending(command)),
                  close : BOOLEAN] :
            /\ ev.write = "fail" => (ev.arrive = 0 /\ ~ev.close)
            /\ tester.peerClosed => (ev.close \/ ev.write = "fail")
            /\ faults + TesterEventCost(command, ev) <= MaxFaults}

\* recv(1024)
RecvSize == 1024

\* send_command's except clause with the exception raised again.
Tester_except_reraises(msg) == [raised |-> TRUE, ret |-> PyNone]

\* except Exception as e: return f"Error: {e}"
Tester_except(msg) == [raised |-> FALSE, ret |-> PyStr(ErrorPrefix \o msg)]

\* The response without the strip().
Tester_response_unstripped(got) == PyStr(got)

\* response = self.tn.recv(1024).decode().strip(), for bytes that decode.
Tester_response(got) == PyStr(strip(got))

\* send_command(command): tn.send(command + CRLF); sleep; tn.recv(1024),
\* decode, strip.  Any Exception becomes the text "Error: <message>".
Tester_send_command(command, ev) ==
    LET pending == TesterPending(command)
        \* the bytes readable when recv returns
        data == IF tester.kind = "mock" THEN Reply(tester.profile, command)
                ELSE tester.rxbuf \o Concat(SubSeq(pending, 1, ev.arrive))
        got == SubSeq(data, 1, IF Len(data) < RecvSize THEN Len(data) ELSE RecvSize)
        out == IF ev.write = "fail"
                 THEN Tester_except(MsgBrokenPipe)
               ELSE IF tester.kind = "socket" /\ got = <<>> /\ ~ev.close
                 \* settimeout(5): a recv with nothing to read raises timeout
                 THEN Tester_except(MsgTimedOut)
               ELSE IF ~Decodable(got)
                 THEN Tester_except(MsgBadByte)
               ELSE [raised |-> FALSE, ret |-> Tester_response(got)]
    IN  [ raised     |-> out.raised,
          ret        |-> out.ret,
          sent       |-> Append(tester.sent, command),
          got        |-> IF ev.write = "fail" THEN <<>> ELSE got,
          inflight   |-> IF ev.write = "fail" THEN tester.inflight
                         ELSE SubSeq(pending, ev.arrive + 1, Len(pending)),
          rxbuf      |-> IF ev.write = "fail" THEN tester.rxbuf
                         ELSE SubSeq(data, Len(got) + 1, Len(data)),
          peerClosed |-> tester.peerClosed \/ ev.close ]

\* run_all_tests, first statement: connect_telnet().  The socket is created,
\* then connected; on failure run_all_tests returns None and main prints the
\* failure and returns 1 (the process exit releases the socket).
Tester_connect_telnet ==
    /\ entry = "wifi_bt_gps_test"
    /\ pc = "t_start"
    /\ \/ /\ tester' = [tester EXCEPT !.tn = TesterSocket]
          /\ openHandles' = openHandles \cup {TesterSocket}
          /\ stdout' = stdout \cup {"Connected"}
          /\ pc' = "t_battery"
          /\ UNCHANGED exitStatus
       \/ /\ tester.kind = "socket"
          /\ tester' = [tester EXCEPT !.tn = TesterSocket]
          /\ stdout' = stdout \cup {"Connection failed",
                                    "Test failed - could not establish connection"}
          /\ pc' = "exited"
          /\ exitStatus' = "1"
          /\ openHandles' = {}
    /\ UNCHANGED <<entry, intr, faults, mount, diag, scan>>

\* One "response = self.send_command(cmd); tests[name] = response" pair of a
\* test_* method; after the last pair of a suite the suite returns its dict
\* and run_all_tests stores it under the suite's key.
Tester_exchange ==
    /\ entry = "wifi_bt_gps_test"
    /\ pc = "t_battery"
    /\ tester.idx < Len(Battery)
    /\ LET b == Battery[tester.idx + 1]
       IN  \E ev \in TesterEvents(b.cmd) :
             LET r == Tester_send_command(b.cmd, ev)
                 tests == tester.tests @@ (b.name :> r.ret)
             IN  /\ faults' = faults + TesterEventCost(b.cmd, ev)
                 /\ IF r.raised
                    THEN \* an exception leaving run_all_tests ends main with a
                         \* traceback and exit status 1
                         /\ tester' = [tester EXCEPT !.sent = r.sent]
                         /\ pc' = "exited"
                         /\ exitStatus' = "1"
                         /\ stdout' = stdout \cup {"Traceback"}
                         /\ openHandles' = {}
                    ELSE /\ tester' =
                              [tester EXCEPT
                                 !.idx = @ + 1,
                                 !.sent = r.sent,
                                 !.inflight = r.inflight,
                                 !.rxbuf = r.rxbuf,
                                 !.peerClosed = r.peerClosed,
                                 !.last = [cmd |-> b.cmd, write |-> ev.write,
                                           got |-> r.got, ret |-> r.ret],
                                 !.tests = IF b.last THEN <<>> ELSE tests,
                                 !.test_results =
                                     IF b.last THEN @ @@ (b.key :> tests) ELSE @]
                         /\ UNCHANGED <<pc, exitStatus, stdout, openHandles>>
    /\ UNCHANGED <<entry, intr, mount, diag, scan>>

\* The clock texts str(end_time - start_time) and start_time.isoformat().
ClockText == <<48>>

\* run_all_tests, after the suites: duration and timestamp are stored, the
\* socket is closed and test_results is returned.
Tester_run_all_tests_return ==
    /\ entry = "wifi_bt_gps_test"
    /\ pc = "t_battery"
    /\ tester.idx = Len(Battery)
    /\ tester' = [tester EXCEPT
                    !.test_results =
                        @ @@ ("test_duration" :> PyStr(ClockText))
                          @@ ("test_timestamp" :> PyStr(ClockText))]
    /\ openHandles' = openHandles \ {tester.tn}
    /\ stdout' = stdout \cup {"All tests completed"}
    /\ pc' = "t_returned"
    /\ UNCHANGED <<entry, exitStatus, intr, faults, mount, diag, scan>>

\* main after run_all_tests returned a (non-empty) dict: save, print the
\* summary, return 0.
Tester_main_return ==
    /\ entry = "wifi_bt_gps_test"
    /\ pc = "t_returned"
    /\ stdout' = stdout \cup {"Results saved", "TEST SUMMARY"}
    /\ pc' = "exited"
    /\ exitStatus' = "0"
    /\ openHandles' = {}
    /\ UNCHANGED <<entry, intr, faults, tester, mount, diag, scan>>


----------------------------------------------------------------------------
(* telescope_comm.py: CelestronMount *)

\* Bytes a mount can have waiting when the read is made: nothing, a line of
\* text, or a line holding a byte that is not ASCII.
MountBinary == <<200, 13, 10>>
MountData == {<<>>, TxtOkCrLf, MountBinary}

\* serial.readline(): the bytes up to and including the first LF.  (The data
\* of the model is at most one line, so nothing stays behind in the buffer.)
ReadLine(data) ==
    LET lf == {i \in 1..Len(data) : data[i] = 10}
    IN  IF lf = {} THEN data ELSE SubSeq(data, 1, SetMin(lf))

\* __init__(host, port, timeout); main's locals are kept next to the object.
Mount_init(host, argSerial) ==
    [ host            |-> host,
      tn              |-> NoHandle,
      serial          |-> NoHandle,
      connected       |-> FALSE,
      gen             |-> 0,
      argSerial       |-> argSerial,
      connection_test |-> PyNone,
      mount_info      |-> <<>>,
      idx             |-> 0,
      calls           |-> 0,
      prevCall        |-> "",
      lastCall        |-> "__init__",
      lastRet         |-> PyNone,
      lastWrote       |-> FALSE,
      lastData        |-> <<>> ]

\* The result of a method call: the object after it, the handles open after
\* it, the value returned and whether bytes were written to a transport.
CallResult(m, oh, ret, wrote) == [m |-> m, oh |-> oh, ret |-> ret, wrote |-> wrote]

\* connect_telnet(): telnetlib.Telnet(host, port, timeout) opens the
\* connection in its constructor when host is given and raises if that fails;
\* with host None the constructor returns an object that has no socket.
\* Rebinding self.tn drops the previous Telnet object, whose finalizer closes it.
Mount_connect_telnet(m, oh, ok) ==
    LET id == <<"tn", m.gen + 1>>
    IN  IF m.host = "None"
        THEN CallResult([m EXCEPT !.tn = id, !.gen = @ + 1, !.connected = TRUE],
                        oh \ {m.tn}, PyBool(TRUE), FALSE)
        ELSE IF ok
        THEN CallResult([m EXCEPT !.tn = id, !.gen = @ + 1, !.connected = TRUE],
                        (oh \ {m.tn}) \cup {id}, PyBool(TRUE), FALSE)
        ELSE CallResult(m, oh, PyBool(FALSE), FALSE)

\* connect_serial(port, baudrate): with port None the first enumerated port is
\* taken (None when there is none); serial.Serial raises when the open fails.
\* comports is the enumeration result (device names), ok the open's outcome.
Mount_connect_serial(m, oh, port, comports, ok) ==
    LET id == <<"serial", m.gen + 1>>
        chosen == IF port # "None" THEN port
                  ELSE IF comports # <<>> THEN comports[1] ELSE "None"
    IN  IF chosen # "None" /\ ok
        THEN CallResult([m EXCEPT !.serial = id, !.gen = @ + 1, !.connected = TRUE],
                        (oh \ {m.serial}) \cup {id}, PyBool(TRUE), FALSE)
        ELSE CallResult(m, oh, PyBool(FALSE), FALSE)

\* What can happen during one exchange with the mount: the write succeeds or
\* raises, `data` is what has arrived when the read is made, `eof` says the
\* peer closed the connection.
MountEvents ==
    {ev \in [write : {"ok", "fail"}, data : MountData, eof : BOOLEAN] :
        ev.write = "fail" => (ev.data = <<>> /\ ~ev.eof)}

\* send_command(command)
Mount_send_command(m, oh, command, ev) ==
    IF ~m.connected THEN CallResult(m, oh, PyNone, FALSE)
    ELSE IF m.tn # NoHandle
    THEN \* telnet: write, sleep, read_some().decode('ascii').strip()
         IF m.tn \notin oh
           \* no socket behind the object: write raises, caught
           THEN CallResult(m, oh, PyNone, FALSE)
         ELSE IF ev.write = "fail"
           THEN CallResult(m, oh, PyNone, FALSE)
         ELSE IF ev.data = <<>> /\ ~ev.eof
           \* read_some blocks in recv, which raises timeout after self.timeout
           THEN CallResult(m, oh, PyNone, TRUE)
         ELSE IF ~Decodable(ev.data)
           THEN CallResult(m, oh, PyNone, TRUE)
         ELSE CallResult(m, oh, PyStr(strip(ev.data)), TRUE)
    ELSE IF m.serial # NoHandle
    THEN \* serial: write, sleep, readline().decode('ascii').strip()
         IF m.serial \notin oh
           THEN CallResult(m, oh, PyNone, FALSE)
         ELSE IF ev.write = "fail"
           THEN CallResult(m, oh, PyNone, FALSE)
         ELSE IF ~Decodable(ReadLine(ev.data))
           THEN CallResult(m, oh, PyNone, TRUE)
         \* readline returns b'' when nothing arrives within the timeout
         ELSE CallResult(m, oh, PyStr(strip(ReadLine(ev.data))), TRUE)
    ELSE CallResult(m, oh, PyNone, FALSE)

\* test_connection(): send_command("echo test") is not None
Mount_test_connection(m, oh, ev) ==
    LET r == Mount_send_command(m, oh, "echo test", ev)
    IN  CallResult(r.m, r.oh, PyBool(r.ret # PyNone), r.wrote)

\* get_mount_info(): the commands sent, in order.
get_mount_info_commands == <<"MS", "GV", "GA", "GZ">>

\* disconnect() that leaves connected as it was.
Mount_disconnect_keeps_connected(m, oh) ==
    CallResult(m, (oh \ {m.tn}) \ {m.serial}, PyNone, FALSE)

\* disconnect(): close whichever of tn and serial is set (close on a closed
\* Telnet or Serial object does nothing), connected = False.
Mount_disconnect(m, oh) ==
    CallResult([m EXCEPT !.connected = FALSE],
               (IF m.tn # NoHandle THEN oh \ {m.tn} ELSE oh)
                   \ (IF m.serial # NoHandle THEN {m.serial} ELSE {}),
               PyNone, FALSE)

\* Record a call in the object's call log: the method, the one called before
\* it, the value returned, whether bytes were written to a transport and the
\* bytes that were there to read.
Logged(r, name, data) ==
    [r.m EXCEPT !.calls = @ + 1, !.prevCall = r.m.lastCall, !.lastCall = name,
                !.lastRet = r.ret, !.lastWrote = r.wrote, !.lastData = data]

(* The object driven directly: any sequence of MaxCalls method calls. *)

Api_connect_telnet ==
    /\ entry = "CelestronMount"
    /\ mount.calls < MaxCalls
    /\ \E ok \in BOOLEAN :
         LET r == Mount_connect_telnet(mount, openHandles, ok)
         IN  /\ mount' = Logged(r, "connect_telnet", <<>>)
             /\ openHandles' = r.oh
    /\ UNCHANGED <<entry, pc, exitStatus, stdout, intr, faults, tester, diag, scan>>

Api_connect_serial ==
    /\ entry = "CelestronMount"
    /\ mount.calls < MaxCalls
    /\ \E port \in {"None", "COM3"}, comports \in {<<>>, <<"COM3">>}, ok \in BOOLEAN :
         LET r == Mount_connect_serial(mount, openHandles, port, comports, ok)
         IN  /\ mount' = Logged(r, "connect_serial", <<>>)
             /\ openHandles' = r.oh
    /\ UNCHANGED <<entry, pc, exitStatus, stdout, intr, faults, tester, diag, scan>>

Api_send_command ==
    /\ entry = "CelestronMount"
    /\ mount.calls < MaxCalls
    /\ \E ev \in MountEvents :
         LET r == Mount_send_command(mount, openHandles, "MS", ev)
         IN  /\ mount' = Logged(r, "send_command", ev.data)
             /\ openHandles' = r.oh
    /\ UNCHANGED <<entry, pc, exitStatus, stdout, intr, faults, tester, diag, scan>>

Api_disconnect ==
    /\ entry = "CelestronMount"
    /\ mount.calls < MaxCalls
    /\ LET r == Mount_disconnect(mount, openHandles)
       IN  /\ mount' = Logged(r, "disconnect", <<>>)
           /\ openHandles' = r.oh
    /\ stdout' = stdout \cup {"Disconnected"}
    /\ UNCHANGED <<entry, pc, exitStatus, intr, faults, tester, diag, scan>>

(* main() *)

\* main, lines 129-143 and 171-173: the connection attempts.  With --host:
\* telnet; with --serial: that port; with neither: serial auto-detect, then
\* connect_telnet.  Not connected: "Failed to establish connection", return 1.
Mount_main_connect ==
    /\ entry = "telescope_comm"
    /\ pc = "m_start"
    /\ \E okT \in BOOLEAN, okS \in BOOLEAN, comports \in {<<>>, <<"COM3">>} :
         LET r == IF mount.host # "None"
                    THEN Mount_connect_telnet(mount, openHandles, okT)
                  ELSE IF mount.argSerial # "None"
                    THEN Mount_connect_serial(mount, openHandles, mount.argSerial,
                                              comports, okS)
                  ELSE LET s == Mount_connect_serial(mount, openHandles, "None",
                                                     comports, okS)
                       IN  IF s.ret = PyBool(TRUE) THEN s
                           ELSE Mount_connect_telnet(s.m, s.oh, okT)
         IN  IF r.ret = PyBool(TRUE)
             THEN /\ mount' = Logged(r, "connect", <<>>)
                  /\ openHandles' = r.oh
                  /\ pc' = "m_test"
                  /\ stdout' = stdout \cup {"connection successful"}
                  /\ UNCHANGED exitStatus
             ELSE /\ mount' = Logged(r, "connect", <<>>)
                  /\ openHandles' = {}
                  /\ pc' = "exited"
                  /\ exitStatus' = "1"
                  /\ stdout' = stdout \cup {"Failed to establish connection"}
    /\ UNCHANGED <<entry, intr, faults, tester, diag, scan>>

\* main: 'connection_test': mount.test_connection()
Mount_main_test_connection ==
    /\ entry = "telescope_comm"
    /\ pc = "m_test"
    /\ \E ev \in MountEvents :
         LET r == Mount_test_connection(mount, openHandles, ev)
         IN  /\ mount' = [Logged(r, "test_connection", ev.data)
                                 EXCEPT !.connection_test = r.ret]
             /\ openHandles' = r.oh
    /\ pc' = "m_info"
    /\ UNCHANGED <<entry, exitStatus, stdout, intr, faults, tester, diag, scan>>

\* get_mount_info, one iteration: response = send_command(cmd); a truthy
\* response is stored under cmd.
Mount_get_mount_info_step ==
    /\ entry = "telescope_comm"
    /\ pc = "m_info"
    /\ mount.idx < Len(get_mount_info_commands)
    /\ LET cmd == get_mount_info_commands[mount.idx + 1]
       IN  \E ev \in MountEvents :
             LET r == Mount_send_command(mount, openHandles, cmd, ev)
             IN  /\ mount' = [Logged(r, "send_command", ev.data) EXCEPT
                                !.idx = @ + 1,
                                !.mount_info =
                                    IF Truthy(r.ret) THEN @ @@ (cmd :> r.ret.v) ELSE @]
                 /\ openHandles' = r.oh
    /\ UNCHANGED <<entry, pc, exitStatus, stdout, intr, faults, tester, diag, scan>>

\* main, lines 162-170: print the results, mount.disconnect(), return 0.
Mount_main_return ==
    /\ entry = "telescope_comm"
    /\ pc = "m_info"
    /\ mount.idx = Len(get_mount_info_commands)
    /\ LET r == Mount_disconnect(mount, openHandles)
       IN  mount' = Logged(r, "disconnect", <<>>)
    /\ openHandles' = {}
    /\ stdout' = stdout \cup {"Mount Information", "Disconnected"}
    /\ pc' = "exited"
    /\ exitStatus' = "0"
    /\ UNCHANGED <<entry, intr, faults, tester, diag, scan>>


----------------------------------------------------------------------------
(* diagnose_homebrew.py *)

\* str.lower() / str.upper() on ASCII text
LowerChar(c) == IF c \in 65..90 THEN c + 32 ELSE c
UpperChar(c) == IF c \in 97..122 THEN c - 32 ELSE c
lower(s) == [i \in 1..Len(s) |-> LowerChar(s[i])]
upper(s) == [i \in 1..Len(s) |-> UpperChar(s[i])]

\* needle in hay
Contains(needle, hay) ==
    \E i \in 0..(Len(hay) - Len(needle)) : SubSeq(hay, i + 1, i + Len(needle)) = needle

\* str.isdigit() and int() on ASCII decimal text
isdigit(s) == s # <<>> /\ \A i \in 1..Len(s) : s[i] \in 48..57

RECURSIVE int(_)
int(s) == IF s = <<>> THEN 0 ELSE 10 * int(SubSeq(s, 1, Len(s) - 1)) + (s[Len(s)] - 48)

\* detect_homebrew_port's keyword list:
\* 'CH340', 'CP210', 'FTDI', 'USB-SERIAL', 'ESP32', 'Arduino'
keywords ==
    << <<67, 72, 51, 52, 48>>,
       <<67, 80, 50, 49, 48>>,
       <<70, 84, 68, 73>>,
       <<85, 83, 66, 45, 83, 69, 82, 73, 65, 76>>,
       <<69, 83, 80, 51, 50>>,
       <<65, 114, 100, 117, 105, 110, 111>> >>

\* Port descriptors the operating system may report (ListPortInfo: device,
\* description, hwid; pyserial gives "n/a" for a field it cannot fill).
TxtNA == <<110, 47, 97>>
PortPool ==
    { \* COM3, "USB-SERIAL CH340", "USB VID:PID=1A86:7523"
      [device |-> <<67, 79, 77, 51>>,
       description |-> <<85, 83, 66, 45, 83, 69, 82, 73, 65, 76, 32, 67, 72, 51, 52, 48>>,
       hwid |-> <<85, 83, 66, 32, 86, 73, 68, 58, 80, 73, 68, 61, 49, 65, 56, 54,
                  58, 55, 53, 50, 51>>],
      \* COM4, "Bluetooth link", "BTHENUM"
      [device |-> <<67, 79, 77, 52>>,
       description |-> <<66, 108, 117, 101, 116, 111, 111, 116, 104, 32, 108, 105, 110, 107>>,
       hwid |-> <<66, 84, 72, 69, 78, 85, 77>>],
      \* COM5, "arduino uno", "n/a"
      [device |-> <<67, 79, 77, 53>>,
       description |-> <<97, 114, 100, 117, 105, 110, 111, 32, 117, 110, 111>>,
       hwid |-> TxtNA],
      \* COM6, "n/a", "ftdibus"
      [device |-> <<67, 79, 77, 54>>,
       description |-> TxtNA,
       hwid |-> <<102, 116, 100, 105, 98, 117, 115>>] }

\* What serial.tools.list_ports.comports() can return: up to MaxPorts
\* different ports, in any order.
ComportsResults ==
    UNION { {l \in [1..n -> PortPool] : \A i, j \in 1..n : l[i] = l[j] => i = j}
            : n \in 0..MaxPorts }

PyList(l) == [t |-> "list", v |-> l]

\* list_com_ports(): None when comports() is empty, else the list.
list_com_ports(comports) ==
    IF comports = <<>> THEN PyNone ELSE PyList(comports)

\* The test of detect_homebrew_port's inner loop for one port and one keyword.
KeywordIn(keyword, port) ==
    \/ Contains(lower(keyword), lower(port.description))
    \/ Contains(lower(keyword), lower(port.hwid))

\* for port in ports: for keyword in keywords: if ...: return port.device
RECURSIVE DetectFrom(_, _)
DetectFrom(l, i) ==
    IF i > Len(l) THEN PyNone
    ELSE IF \E k \in 1..Len(keywords) : KeywordIn(keywords[k], l[i])
    THEN PyStr(l[i].device)
    ELSE DetectFrom(l, i + 1)

\* detect_homebrew_port(ports): iterating over None raises TypeError.
detect_homebrew_port(ports) ==
    IF ports.t = "None"
    THEN [raised |-> "TypeError", ret |-> PyNone]
    ELSE [raised |-> "none", ret |-> DetectFrom(ports.v, 1)]

\* test_serial_connection's default baudrates
baudrates == <<9600, 115200, 57600, 38400>>

\* What the user may type at main's prompt: "", "Y", "n", "com9", "0", "2", "5"
UserInputs ==
    { <<>>, <<89>>, <<110>>, <<99, 111, 109, 57>>, <<48>>, <<50>>, <<53>> }

Diag_init ==
    [ ports         |-> PyNone,
      homebrew_port |-> PyNone,
      raised        |-> "none",
      test_port     |-> <<>>,
      idx           |-> 0,
      ser           |-> NoHandle,
      opening       |-> NoHandle ]

\* main, lines 104-121: the port to test, from the auto-detected port and the
\* text typed.  raised is "IndexError" when ports[int(choice)-1] is out of range.
SelectPort(ports, homebrew_port, typed) ==
    LET n == Len(ports)
    IN  IF homebrew_port # PyNone
        THEN LET choice == lower(strip(typed))
             IN  IF choice = <<121>> \/ choice = <<>>
                   THEN [raised |-> "none", port |-> homebrew_port.v]
                 ELSE IF isdigit(choice) /\ 1 <= int(choice) /\ int(choice) <= n
                   THEN [raised |-> "none", port |-> ports[int(choice)].device]
                 ELSE [raised |-> "none", port |-> upper(choice)]
        ELSE LET choice == strip(typed)
                 k == int(choice) - 1
             IN  IF isdigit(choice)
                   THEN IF k \in 0..(n - 1)
                          THEN [raised |-> "none", port |-> ports[k + 1].device]
                        ELSE IF k \in (0 - n)..(0 - 1)
                          \* a negative index counts from the end
                          THEN [raised |-> "none", port |-> ports[n + k + 1].device]
                        ELSE [raised |-> "IndexError", port |-> <<>>]
                 ELSE [raised |-> "none", port |-> upper(choice)]

\* main, lines 92-99: list the ports; with none, report and return.
Diag_list_com_ports ==
    /\ entry = "diagnose_homebrew"
    /\ pc = "d_start"
    /\ \E comports \in ComportsResults :
         LET ports == list_com_ports(comports)
         IN  /\ diag' = [diag EXCEPT !.ports = ports]
             /\ IF ports = PyNone
                THEN /\ stdout' = stdout \cup {"No COM ports detected!"}
                     /\ pc' = "exited"
                     /\ exitStatus' = "0"
                ELSE /\ pc' = "d_detect"
                     /\ UNCHANGED <<stdout, exitStatus>>
    /\ UNCHANGED <<entry, openHandles, intr, faults, tester, mount, scan>>

\* main, lines 101-121: auto-detect, prompt, choose the port to test.  An
\* IndexError reaches the handler at the bottom of the script: exit status 1.
Diag_select_port ==
    /\ entry = "diagnose_homebrew"
    /\ pc = "d_detect"
    /\ \E typed \in UserInputs :
         LET d == detect_homebrew_port(diag.ports)
             sel == SelectPort(diag.ports.v, d.ret, typed)
         IN  IF sel.raised # "none"
             THEN /\ diag' = [diag EXCEPT !.homebrew_port = d.ret,
                                          !.raised = sel.raised]
                  /\ stdout' = stdout \cup {"Unexpected error"}
                  /\ pc' = "exited"
                  /\ exitStatus' = "1"
             ELSE /\ diag' = [diag EXCEPT !.homebrew_port = d.ret,
                                          !.test_port = sel.port]
                  /\ pc' = "d_loop"
                  /\ UNCHANGED <<stdout, exitStatus>>
    /\ UNCHANGED <<entry, openHandles, intr, faults, tester, mount, scan>>

\* test_serial_connection, line 52: serial.Serial(port, baud, timeout=2).  When
\* the constructor has opened the port the name ser still refers to the object
\* of the previous iteration.  A port that is not among the enumerated ones
\* cannot be opened.
Diag_open_port ==
    /\ entry = "diagnose_homebrew"
    /\ pc = "d_loop"
    /\ diag.idx < Len(baudrates)
    /\ \/ /\ \E i \in 1..Len(diag.ports.v) : diag.ports.v[i].device = diag.test_port
          /\ diag' = [diag EXCEPT !.opening = <<"serial", baudrates[diag.idx + 1]>>]
          /\ openHandles' = openHandles \cup {<<"serial", baudrates[diag.idx + 1]>>}
          /\ stdout' = stdout \cup {"Port opened"}
          /\ pc' = "d_opened"
       \/ /\ diag' = [diag EXCEPT !.idx = @ + 1]
          /\ stdout' = stdout \cup {"Failed"}
          /\ UNCHANGED <<openHandles, pc>>
    /\ UNCHANGED <<entry, exitStatus, intr, faults, tester, mount, scan>>

\* test_serial_connection, lines 52-85, after the port opened: ser is bound to
\* the new object (the object it held is dropped, which closes it), pending
\* data is read and the test commands are written until one is answered;
\* then ser.close().  An exception on the way (in_waiting, write or read
\* raising) is printed and skips ser.close().
Diag_probe_port ==
    /\ entry = "diagnose_homebrew"
    /\ pc = "d_opened"
    /\ \E outcome \in {"silent", "responding", "exception"} :
         /\ diag' = [diag EXCEPT !.idx = @ + 1, !.ser = diag.opening,
                                 !.opening = NoHandle]
         /\ openHandles' =
               IF outcome = "exception"
               THEN openHandles \ {diag.ser}
               ELSE (openHandles \ {diag.ser}) \ {diag.opening}
         /\ stdout' = stdout \cup
               (CASE outcome = "responding" -> {"DEVICE RESPONDING!"}
                  [] outcome = "exception" -> {"Failed"}
                  [] OTHER -> {})
    /\ pc' = "d_loop"
    /\ UNCHANGED <<entry, exitStatus, intr, faults, tester, mount, scan>>

\* main, lines 126-130, and the end of the script: "Diagnostic Complete!",
\* the prompt, and the interpreter exits with status 0.
Diag_main_return ==
    /\ entry = "diagnose_homebrew"
    /\ pc = "d_loop"
    /\ diag.idx = Len(baudrates)
    /\ stdout' = stdout \cup {"Diagnostic Complete!"}
    /\ openHandles' = {}
    /\ pc' = "exited"
    /\ exitStatus' = "0"
    /\ UNCHANGED <<entry, intr, faults, tester, mount, diag, scan>>

\* detect_homebrew_port called directly, on what list_com_ports returns for
\* an enumeration or on the enumerated list itself.
Detect_call ==
    /\ entry = "detect_homebrew_port"
    /\ pc = "call"
    /\ \E comports \in ComportsResults, listed \in BOOLEAN :
         LET ports == IF listed THEN list_com_ports(comports) ELSE PyList(comports)
             d == detect_homebrew_port(ports)
         IN  /\ diag' = [diag EXCEPT !.ports = ports,
                                     !.homebrew_port = d.ret,
                                     !.raised = d.raised]
             /\ pc' = IF d.raised = "none" THEN "returned" ELSE "raised"
    /\ UNCHANGED <<entry, exitStatus, stdout, openHandles, intr, faults,
                   tester, mount, scan>>


----------------------------------------------------------------------------
(* scan_celestron.py *)

\* range(1, 255)
FirstHost == 1
LastHost == 254

\* str(i) for i >= 0: the decimal digits
RECURSIVE str(_)
str(i) == IF i < 10 THEN <<48 + i>> ELSE str(i \div 10) \o <<48 + (i % 10)>>

\* ip = f"192.168.68.{i}"
SubnetPrefix == <<49, 57, 50, 46, 49, 54, 56, 46, 54, 56, 46>>
ip(i) == SubnetPrefix \o str(i)

LiveHosts == {LiveOrder[k] : k \in 1..MaxLive}

\* What one scan_port call can meet: connect_ex returns 0 or an error number
\* (111 refused, 11 timed out, 113 no route), or an exception is raised inside
\* the try block: an OSError, or KeyboardInterrupt when the interrupt signal
\* arrives during the connect.
ConnectOutcomes(i) ==
    { [raised |-> "none", result |-> e] : e \in {111, 11, 113} }
      \cup { [raised |-> "OSError", result |-> 0 - 1] }
      \cup (IF i \in LiveHosts THEN { [raised |-> "none", result |-> 0] } ELSE {})
      \cup (IF intr # "no" THEN {} ELSE { [raised |-> "KeyboardInterrupt", result |-> 0 - 1] })

\* scan_port that reports every connect_ex result as open.
scan_port_any_result(outcome) == outcome.raised = "none"

\* scan_port(ip, port, timeout): result == 0; the bare except returns False
\* for anything raised.
scan_port(outcome) ==
    IF outcome.raised # "none" THEN FALSE ELSE outcome.result = 0

Scan_init ==
    [ i        |-> FirstHost,
      found    |-> <<>>,
      probed   |-> <<>>,
      accepted |-> {},
      s        |-> NoHandle ]

\* Loop head and scan_port, line 9: the socket is created.
Scan_socket ==
    /\ entry = "scan_celestron"
    /\ pc = "s_loop"
    /\ scan.i <= LastHost
    /\ scan' = [scan EXCEPT !.s = <<"socket", scan.i>>,
                            !.probed = Append(@, scan.i)]
    /\ openHandles' = openHandles \cup {<<"socket", scan.i>>}
    /\ pc' = "s_connect"
    /\ UNCHANGED <<entry, exitStatus, stdout, intr, faults, tester, mount, diag>>

\* scan_port, lines 10-15, and the loop body, lines 24-29: connect_ex, close,
\* return; a True result appends the address.  When the try block is left by
\* an exception s.close() is skipped and the socket is closed when scan_port's
\* frame drops it.  accepted records the hosts whose connect_ex returned 0.
Scan_connect ==
    /\ entry = "scan_celestron"
    /\ pc = "s_connect"
    /\ \E outcome \in ConnectOutcomes(scan.i) :
         /\ scan' = [scan EXCEPT
                       !.i = @ + 1,
                       !.s = NoHandle,
                       !.accepted = IF outcome.raised = "none" /\ outcome.result = 0
                                    THEN @ \cup {scan.i} ELSE @,
                       !.found = IF scan_port(outcome)
                                 THEN Append(@, ip(scan.i)) ELSE @]
         /\ intr' = IF outcome.raised = "KeyboardInterrupt" THEN pc ELSE intr
         /\ stdout' = IF scan_port(outcome) THEN stdout \cup {"FOUND"} ELSE stdout
    /\ openHandles' = openHandles \ {scan.s}
    /\ pc' = "s_loop"
    /\ UNCHANGED <<entry, exitStatus, faults, tester, mount, diag>>

\* Lines 31-42: the results are printed and the script ends.
Scan_done ==
    /\ entry = "scan_celestron"
    /\ pc = "s_loop"
    /\ scan.i > LastHost
    /\ stdout' = stdout \cup {"Results"}
    /\ pc' = "exited"
    /\ exitStatus' = "0"
    /\ UNCHANGED <<entry, openHandles, intr, faults, tester, mount, diag, scan>>

----------------------------------------------------------------------------
(* The interrupt signal. *)

\* KeyboardInterrupt raised in the running script anywhere outside scan_port's
\* try block (which Scan_connect covers).  diagnose_homebrew catches it at the
\* bottom of the script, prints "Diagnostic cancelled by user" and calls
\* sys.exit(0).  The other three scripts have no handler: the interpreter
\* prints the traceback and the process dies of the signal.
Interrupt ==
    /\ entry \in {"wifi_bt_gps_test", "telescope_comm", "diagnose_homebrew",
                  "scan_celestron"}
    /\ exitStatus = "running"
    /\ intr = "no"
    /\ pc # "s_connect"
    /\ intr' = pc
    /\ pc' = "exited"
    /\ openHandles' = {}
    /\ IF entry = "diagnose_homebrew"
       THEN /\ stdout' = stdout \cup {"Diagnostic cancelled by user"}
            /\ exitStatus' = "0"
       ELSE /\ stdout' = stdout \cup {"Traceback"}
            /\ exitStatus' = "SIGINT"
    /\ UNCHANGED <<entry, faults, tester, mount, diag, scan>>

----------------------------------------------------------------------------
(* The specification. *)

Entries ==
    {"wifi_bt_gps_test", "telescope_comm", "diagnose_homebrew", "scan_celestron",
     "CelestronMount", "detect_homebrew_port"}

StartPc(e) ==
    CASE e = "wifi_bt_gps_test" -> "t_start"
      [] e = "telescope_comm" -> "m_start"
      [] e = "diagnose_homebrew" -> "d_start"
      [] e = "scan_celestron" -> "s_loop"
      [] e = "CelestronMount" -> "api"
      [] OTHER -> "call"

Init ==
    /\ entry \in Entries
    /\ pc = StartPc(entry)
    /\ exitStatus = "running"
    /\ stdout = {}
    /\ openHandles = {}
    /\ intr = "no"
    /\ faults = 0
    /\ \E kind \in {"socket", "mock"}, profile \in Profiles :
         /\ entry # "wifi_bt_gps_test" => (kind = "socket" /\ profile = "terse")
         /\ tester = Tester_init(kind, profile)
    /\ \E host \in {"None", "192.168.68.5"}, argSerial \in {"None", "COM3"} :
         /\ entry \notin {"telescope_comm", "CelestronMount"}
               => (host = "None" /\ argSerial = "None")
         /\ entry = "CelestronMount" => argSerial = "None"
         /\ mount = Mount_init(host, argSerial)
    /\ diag = Diag_init
    /\ scan = Scan_init

Next ==
    \/ Tester_connect_telnet
    \/ Tester_exchange
    \/ Tester_run_all_tests_return
    \/ Tester_main_return
    \/ Api_connect_telnet
    \/ Api_connect_serial
    \/ Api_send_command
    \/ Api_disconnect
    \/ Mount_main_connect
    \/ Mount_main_test_connection
    \/ Mount_get_mount_info_step
    \/ Mount_main_return
    \/ Diag_list_com_ports
    \/ Diag_select_port
    \/ Diag_open_port
    \/ Diag_probe_port
    \/ Diag_main_return
    \/ Detect_call
    \/ Scan_socket
    \/ Scan_connect
    \/ Scan_done
    \/ Interrupt

Spec == Init /\ [][Next]_vars


----------------------------------------------------------------------------
(* Properties. *)

Scripts == {"wifi_bt_gps_test", "telescope_comm", "diagnose_homebrew", "scan_celestron"}

\* C1: send_command on an open session whose write succeeded and for which no
\* data was there to read returns the empty string, never an error value
\* ("Error..." from the tester, None from the mount), on TCP and on serial.
C1_EmptyReplyIsEmptyString ==
    /\ (entry = "wifi_bt_gps_test" /\ tester.last.write = "ok" /\ tester.last.got = <<>>)
          => tester.last.ret = PyStr(<<>>)
    /\ (/\ entry \in {"telescope_comm", "CelestronMount"}
        /\ mount.lastCall = "send_command"
        /\ mount.lastWrote
        /\ mount.lastData = <<>>)
          => mount.lastRet = PyStr(<<>>)

\* The command table of the claim, in order.
C2_Table ==
    << "WIFISTATUS", "WIFISCAN", "WIFICONNECT", "PING 8.8.8.8", "PING 192.168.1.1",
       "BTSTATUS", "BTSCAN", "BTPAIR",
       "GPSSTATUS", "GPSCOORDS", "GPSSAT", "GPSTIME",
       "USBSTATUS", "USBRELAY ON", "USBRELAY OFF",
       "VERSION", "UPTIME", "TEMPERATURE", "MEMORY" >>

\* C2: once run_all_tests has connected, the commands written to the session
\* are at every moment the first so-many entries of the fixed table, in order
\* and once each, and the battery does not end before all nineteen were
\* written, whatever the earlier exchanges returned (only the interrupt
\* signal ends it early).
C2_CommandsInTableOrder ==
    entry = "wifi_bt_gps_test" =>
      /\ Len(tester.sent) <= Len(C2_Table)
      /\ tester.sent = SubSeq(C2_Table, 1, Len(tester.sent))
      /\ (pc \in {"t_returned", "exited"} /\ "Connected" \in stdout /\ intr = "no")
            => tester.sent = C2_Table

\* A run whose first command failed to be written and that still wrote all
\* nineteen commands.
C2_Witness ==
    /\ entry = "wifi_bt_gps_test"
    /\ pc = "t_returned"
    /\ tester.test_results["wifi_tests"]["wifi_status"] = PyStr(ErrorPrefix \o MsgBrokenPipe)
    /\ tester.sent = C2_Table

\* The result names of the claim, by category.
C3_Names ==
    [ wifi_tests      |-> {"wifi_status", "wifi_scan", "wifi_connect",
                           "internet_ping", "local_ping"},
      bluetooth_tests |-> {"bt_status", "bt_scan", "bt_pair"},
      gps_tests       |-> {"gps_status", "gps_coordinates", "gps_satellites", "gps_time"},
      usb_tests       |-> {"usb_status", "usb_relay_on", "usb_relay_off"},
      device_tests    |-> {"device_version", "device_uptime", "device_temperature",
                           "memory_status"} ]

\* C3: a write or read error never leaves send_command (no traceback unless
\* the interrupt signal came), and the result set run_all_tests returns after
\* connecting has the five category keys, each binding exactly its command
\* names to strings, plus test_duration and test_timestamp.
C3_ErrorsRecordedResultsComplete ==
    entry = "wifi_bt_gps_test" =>
      /\ "Traceback" \in stdout => intr # "no"
      /\ pc = "t_returned" =>
           LET res == tester.test_results
           IN  /\ DOMAIN res = DOMAIN C3_Names \cup {"test_duration", "test_timestamp"}
               /\ \A key \in DOMAIN C3_Names :
                    /\ DOMAIN res[key] = C3_Names[key]
                    /\ \A name \in C3_Names[key] : res[key][name].t = "str"
               /\ res["test_duration"].t = "str"
               /\ res["test_timestamp"].t = "str"

\* A returned result set in which a read error (a timeout) and a write error
\* are both recorded as text.
C3_Witness ==
    /\ entry = "wifi_bt_gps_test"
    /\ pc = "t_returned"
    /\ tester.test_results["wifi_tests"]["wifi_scan"] = PyStr(ErrorPrefix \o MsgTimedOut)
    /\ tester.test_results["gps_tests"]["gps_time"] = PyStr(ErrorPrefix \o MsgBrokenPipe)

\* The members of a set of host suffixes as addresses, in ascending order.
RECURSIVE C4_Ascending(_)
C4_Ascending(S) ==
    IF S = {} THEN <<>> ELSE <<ip(SetMin(S))>> \o C4_Ascending(S \ {SetMin(S)})

\* "192.168.68.5"
C4_Host5 == <<49, 57, 50, 46, 49, 54, 56, 46, 54, 56, 46, 53>>

\* C4: the sweep probes the suffixes 1, 2, ... in ascending order, each once,
\* all 254 of them by the time it prints its results; the found list is at
\* every moment the addresses whose connect succeeded, in ascending suffix
\* order without duplicates, so that any failed connect leaves its address
\* out and no accepting host leaves the list empty.
C4_SweepFindsAcceptingHosts ==
    entry = "scan_celestron" =>
      /\ scan.probed = [k \in 1..Len(scan.probed) |-> k]
      /\ scan.found = C4_Ascending(scan.accepted)
      /\ (scan.accepted = {}) = (scan.found = <<>>)
      /\ "Results" \in stdout => Len(scan.probed) = 254

\* The sweep has ended and only 192.168.68.5 accepted.
C4_Witness ==
    /\ entry = "scan_celestron"
    /\ "Results" \in stdout
    /\ scan.accepted = {5}
    /\ scan.found = <<C4_Host5>>

\* C5: at every point of a script's run at most one transport handle (serial
\* port or socket) is open.
C5_AtMostOneHandleOpen ==
    entry \in Scripts => Cardinality(openHandles) <= 1

\* C6: a script whose transport could not be opened, or whose connection test
\* failed, does not exit with status 0: telescope_comm when the connect fails
\* or test_connection returns False, wifi_bt_gps_test when the connect fails,
\* diagnose_homebrew when no baud rate could open the selected port.
C6_FailureExitsNonZero ==
    LET failed ==
          \/ /\ entry = "telescope_comm"
             /\ \/ "Failed to establish connection" \in stdout
                \/ mount.connection_test = PyBool(FALSE)
          \/ /\ entry = "wifi_bt_gps_test"
             /\ "Connection failed" \in stdout
          \/ /\ entry = "diagnose_homebrew"
             /\ diag.idx = Len(baudrates)
             /\ "Port opened" \notin stdout
    IN  (pc = "exited" /\ intr = "no" /\ failed) => exitStatus # "0"

\* The first port, in enumeration order, one of whose two texts contains one
\* of the six keywords when letter case is ignored; None when there is none.
C7_FirstMatch(l) ==
    LET hit == {i \in 1..Len(l) :
                  \E k \in 1..Len(keywords) :
                     \/ Contains(lower(keywords[k]), lower(l[i].description))
                     \/ Contains(lower(keywords[k]), lower(l[i].hwid))}
    IN  IF hit = {} THEN PyNone ELSE PyStr(l[SetMin(hit)].device)

\* C7: detect_homebrew_port returns the device of the first matching
\* descriptor in enumeration order, None when none matches, and for the
\* result of an empty enumeration (as list_com_ports returns it) it returns
\* None without raising.
C7_DetectFirstMatchOrNone ==
    (entry = "detect_homebrew_port" /\ pc # "call") =>
      /\ diag.raised = "none"
      /\ diag.homebrew_port = C7_FirstMatch(diag.ports.v)

\* C8: an interrupt signal delivered while a command battery, a serial probe
\* or a subnet sweep (a connect attempt of scan_port included) is running
\* stops the run: the script is over, a cancellation message was printed, and
\* the exit status is neither the success status nor the failure status.
C8_InterruptCancelsRun ==
    (entry \in Scripts
       /\ intr \in {"t_battery", "d_loop", "d_opened", "s_loop", "s_connect"}) =>
      /\ pc = "exited"
      /\ "Diagnostic cancelled by user" \in stdout
      /\ exitStatus \notin {"0", "1"}

\* The part of the mount's state that disconnect acts on.
C9_Session == <<mount.tn, mount.serial, mount.connected, openHandles>>

\* C9: after disconnect the mount is not connected and neither its telnet nor
\* its serial handle is open, whatever was called before (nothing, a failed
\* connect, an earlier disconnect); a disconnect that follows a disconnect
\* changes nothing; a send_command that follows a disconnect writes nothing
\* and returns None.
C9_DisconnectIdempotent ==
    /\ [](mount.lastCall = "disconnect" =>
            /\ ~mount.connected
            /\ mount.tn \notin openHandles
            /\ mount.serial \notin openHandles)
    /\ [][(mount.lastCall = "disconnect" /\ mount'.lastCall = "disconnect")
             => C9_Session' = C9_Session]_vars
    /\ [][(mount.lastCall = "disconnect" /\ mount'.lastCall = "send_command")
             => (mount'.lastRet = PyNone /\ ~mount'.lastWrote)]_vars

\* A connected mount was disconnected twice and then asked to send.
C9_Witness ==
    /\ entry = "CelestronMount"
    /\ mount.tn # NoHandle
    /\ mount.calls = 4
    /\ mount.prevCall = "disconnect"
    /\ mount.lastCall = "send_command"
    /\ mount.lastRet = PyNone

\* The stripped reply texts of the device profiles to VERSION, UPTIME,
\* TEMPERATURE and MEMORY: "v1.2.3", "OK", "ready" and "".
C10_Expected(profile) ==
    CASE profile = "terse" ->
           [ device_version     |-> PyStr(<<118, 49, 46, 50, 46, 51>>),
             device_uptime      |-> PyStr(<<>>),
             device_temperature |-> PyStr(<<>>),
             memory_status      |-> PyStr(<<>>) ]
      [] profile = "padded" ->
           [ device_version     |-> PyStr(<<118, 49, 46, 50, 46, 51>>),
             device_uptime      |-> PyStr(<<79, 75>>),
             device_temperature |-> PyStr(<<>>),
             memory_status      |-> PyStr(<<>>) ]

\* C10: over a transport that hands back a fixed reply text for each command,
\* test_device_info returns exactly the four keys device_version,
\* device_uptime, device_temperature and memory_status, bound to the stripped
\* replies to VERSION, UPTIME, TEMPERATURE and MEMORY.
C10_DeviceInfoMapping ==
    (/\ entry = "wifi_bt_gps_test"
     /\ tester.kind = "mock"
     /\ tester.profile \in {"terse", "padded"}
     /\ "device_tests" \in DOMAIN tester.test_results)
       => tester.test_results["device_tests"] = C10_Expected(tester.profile)

\* The device-info suite has returned over a transport whose replies carry
\* surrounding whitespace.
C10_Witness ==
    /\ entry = "wifi_bt_gps_test"
    /\ tester.kind = "mock"
    /\ tester.profile = "padded"
    /\ "device_tests" \in DOMAIN tester.test_results
    /\ tester.test_results["device_tests"]["device_uptime"] = PyStr(<<79, 75>>)

\* C11: while a CelestronMount is in use, connected = TRUE only with a telnet
\* or serial handle of the object actually open, after any sequence of
\* connect_telnet, connect_serial and disconnect calls; and telescope_comm
\* main is in its command phase (test_connection, get_mount_info) only with
\* an open transport, also when it was started with neither --host nor
\* --serial and no serial port exists.
C11_ConnectedMeansOpenTransport ==
    (entry \in {"telescope_comm", "CelestronMount"} /\ pc # "exited") =>
      /\ mount.connected =>
           (mount.tn \in openHandles \/ mount.serial \in openHandles)
      /\ pc \in {"m_test", "m_info"} => openHandles # {}

\* The error texts send_command can return.
C12_Errors ==
    {PyStr(ErrorPrefix \o msg) : msg \in {MsgTimedOut, MsgBrokenPipe, MsgBadByte}}

\* What may stand under a name whose command is cmd: the device's stripped
\* reply to cmd, the empty text, or an error text.
C12_Allowed(cmd) ==
    {PyStr(strip(Reply(tester.profile, cmd))), PyStr(<<>>)} \cup C12_Errors

\* C12: in the command battery every response recorded under a command name,
\* in a finished suite or in the suite under way, is the device's reply to
\* that same command, or empty, or an error text; a reply that arrives late
\* or together with others is never recorded under a later command's name.
C12_ReplyUnderOwnCommand ==
    entry = "wifi_bt_gps_test" =>
      \A k \in 1..Len(Battery) :
        LET b == Battery[k]
        IN  /\ b.name \in DOMAIN tester.tests
                 => tester.tests[b.name] \in C12_Allowed(b.cmd)
            /\ b.key \in DOMAIN tester.test_results
                 => tester.test_results[b.key][b.name] \in C12_Allowed(b.cmd)

============================================================================
